---- MODULE Spec2Model ----
(***************************************************************************)
(* Model of browser-ext/popup.js: the popup (control surface) of the       *)
(* LinkedIn exporter extension.  The popup injects code into the page      *)
(* (chrome.tabs.executeScript), receives the locale report back as a       *)
(* runtime message, loads the bundled endpoint list, and keeps the schema  *)
(* version preference in chrome.storage.sync.                              *)
(***************************************************************************)
EXTENDS Integers, Sequences, FiniteSets, TLC

(***************************************************************************)
(* Bounds of the model.                                                    *)
(***************************************************************************)
\* longest supported-locale list a locale report carries (component runs)
MaxSupported == 3
\* longest raw endpoint list read from endpoints.json (component runs)
MaxRaw == 3
\* endpoint fetches that may be outstanding at once
MaxFetch == 2
\* times the popup is opened within one page lifetime
MaxOpens == 2
\* user commands in flight: run-and-show clicks awaiting their preference
\* read, command payloads not yet executed, their callbacks not yet run
MaxInFlight == 2
\* storage requests sent and not yet served
MaxStorageQ == 2

(***************************************************************************)
(* Constants of popup.js and the value domains of its inputs.              *)
(***************************************************************************)
extensionId == "self"
OtherSender == "other"
Senders == {extensionId, OtherSender}
Keys == {"locales", "unknown"}

SPEC_OPTIONS == <<"legacy", "stable", "beta">>
SpecValues == {SPEC_OPTIONS[i] : i \in 1..Len(SPEC_OPTIONS)}
\* the options of the schema version selector in popup.html
SpecSelectOptions == SpecValues

Locales == {"en", "fr", "de"}

\* JavaScript undefined (a missing key of the storage result)
Undefined == "<undefined>"
\* what chrome.storage.sync may hold under the key schemaVersion
StoredValues == SpecValues \cup {Undefined, "not-a-version"}

\* entries of endpoints.json: descriptors and the falsy placeholder null
Null == [kind |-> "null", name |-> "", url |-> ""]
Descriptors == {[kind |-> "object", name |-> "A", url |-> "u1"],
                [kind |-> "object", name |-> "B", url |-> "u2"]}
RawEntries == Descriptors \cup {Null}

SeqsUpTo(S, n) == UNION {[1..k -> S] : k \in 0..n}

\* inputs of the component runs
SupportedLists == SeqsUpTo(Locales, MaxSupported)
RawLists == SeqsUpTo(RawEntries, MaxRaw)
\* inputs of the whole-system run
SysReports == {[supported |-> <<"en", "fr">>, user |-> "fr"],
               [supported |-> <<>>, user |-> "en"]}
TabReports == {[supported |-> <<"en", "fr">>, user |-> "fr"]}
SysRawLists == {<<>>, <<Null>>,
                <<[kind |-> "object", name |-> "A", url |-> "u1"], Null,
                  [kind |-> "object", name |-> "B", url |-> "u2"]>>}
TabRawLists == {<<[kind |-> "object", name |-> "A", url |-> "u1"], Null,
                  [kind |-> "object", name |-> "B", url |-> "u2"]>>}

(***************************************************************************)
(* JavaScript array and DOM helpers, as popup.js uses them.                *)
(***************************************************************************)
\* Array.prototype.includes
Includes(s, x) == \E i \in 1..Len(s) : s[i] = x

\* Array.prototype.indexOf, 1-based; 0 when absent (JavaScript's -1)
IndexOf(s, x) ==
    IF Includes(s, x) THEN CHOOSE i \in 1..Len(s) : s[i] = x /\ \A j \in 1..(i - 1) : s[j] # x
    ELSE 0

\* Array.prototype.splice(i, 1), 1-based
Splice1(s, i) == [k \in 1..(Len(s) - 1) |-> IF k < i THEN s[k] ELSE s[k + 1]]

\* Array.prototype.unshift
Unshift(s, x) == <<x>> \o s

\* JavaScript truthiness of an endpoints.json entry
Truthy(e) == e.kind # "null"

\* value of a single-choice <select> whose options were just rebuilt
SelectValue(options) == IF Len(options) = 0 THEN "" ELSE options[1].value

(***************************************************************************)
(* State.                                                                  *)
(***************************************************************************)
VARIABLES
    popupOpen,      \* the popup document exists and its script has run
    opens,          \* how many times the popup was opened (popup generation)
    LANG_SELECT,    \* [options, value] of the locale selector
    API_SELECT,     \* [options, value] of the endpoint selector
    SPEC_SELECT,    \* value of the schema version selector
    toggle,         \* class of the .toggle elements: initial, enabled, disabled
    loader,         \* the .loader elements are shown
    consoleLog,     \* last message logged by the message listener
    fetchPending,   \* fetches of endpoints.json not yet resolved
    reads,          \* latest event of the getSpecVersion calls, by call site
    storageQ,       \* requests sent to chrome.storage.sync, in order
    stored,         \* value persisted under schemaVersion
    execQ,          \* payloads dispatched into the tab, in order
    cbQ,            \* executeScript callbacks due in the popup, in order
    closeTimer,     \* the 700ms close timer is armed
    remote          \* the page's content-script scope

popupVars == <<popupOpen, opens, LANG_SELECT, API_SELECT, SPEC_SELECT, toggle, loader,
               consoleLog, fetchPending, closeTimer>>
vars == <<popupOpen, opens, LANG_SELECT, API_SELECT, SPEC_SELECT, toggle, loader,
          consoleLog, fetchPending, reads, storageQ, stored, execQ, cbQ, closeTimer,
          remote>>

(***************************************************************************)
(* Pure parts of popup.js.                                                 *)
(***************************************************************************)
\* faulty variants of mergeLocales: no removal; every occurrence removed
mergeLocales_noSplice(supported, user) == Unshift(supported, user)
mergeLocales_removeAll(supported, user) ==
    Unshift(SelectSeq(supported, LAMBDA x : x # user), user)

\* the message listener's reordering of the reported locales
mergeLocales(supported, user) ==
    LET spliced == IF Includes(supported, user)
                   THEN Splice1(supported, IndexOf(supported, user))
                   ELSE supported
    IN  Unshift(spliced, user)

toggleEnabled(isEnabled) == IF isEnabled THEN "enabled" ELSE "disabled"

showLoader(isEnabled) == IF isEnabled THEN "shown" ELSE "hidden"

\* faulty variant of loadLangs: the selector is not emptied first
loadLangs_accumulate(langs) ==
    LET options == LANG_SELECT.options \o
                       [i \in 1..Len(langs) |-> [value |-> langs[i], text |-> langs[i]]]
    IN  [options |-> options, value |-> SelectValue(options)]

\* loadLangs: the rebuilt locale selector
loadLangs(langs) ==
    LET options == [i \in 1..Len(langs) |-> [value |-> langs[i], text |-> langs[i]]]
    IN  [options |-> options, value |-> SelectValue(options)]

\* the forEach of loadApiEndpoints: one option per truthy entry, appended in order
RECURSIVE appendEndpointOptions(_, _)
appendEndpointOptions(options, api_endpoints) ==
    IF api_endpoints = <<>> THEN options
    ELSE LET api_endpoint == Head(api_endpoints)
         IN  appendEndpointOptions(
                 IF Truthy(api_endpoint)
                 THEN Append(options, [value |-> api_endpoint.url, text |-> api_endpoint.name])
                 ELSE options,
                 Tail(api_endpoints))

\* faulty variant of loadApiEndpoints: the selector is not cleared first
loadApiEndpoints_accumulate(api_endpoints) ==
    LET options == appendEndpointOptions(API_SELECT.options, api_endpoints)
    IN  [options |-> options, value |-> SelectValue(options)]

\* loadApiEndpoints: the rebuilt endpoint selector
loadApiEndpoints(api_endpoints) ==
    LET options == appendEndpointOptions(<<>>, api_endpoints)
    IN  [options |-> options, value |-> SelectValue(options)]

\* the class loadApiEndpoints leaves on the .toggle elements
loadApiEndpointsToggle(api_endpoints) == toggleEnabled(Len(api_endpoints) > 0)

getSelectedLang == LANG_SELECT.value
getSelectedAPIEndpoint == API_SELECT.value

\* faulty variant of acceptsMessage: the key is not checked
acceptsMessage_senderOnly(sender, key) == sender = extensionId

\* whether the listener handles a message
acceptsMessage(sender, key) == sender = extensionId /\ key = "locales"

\* faulty variants of resolveSpecVersion: no membership test; the fallback
\* read from the selector when the callback runs
resolveSpecVersion_noCheck(result, fallbackVersion) ==
    IF result = Undefined \/ result = "" THEN fallbackVersion ELSE result
resolveSpecVersion_liveFallback(result, fallbackVersion) ==
    IF result \in SpecValues THEN result ELSE SPEC_SELECT

\* getSpecVersion's storage callback: the value the promise resolves to
resolveSpecVersion(result, fallbackVersion) ==
    LET storedSetting == IF result = Undefined \/ result = "" THEN "" ELSE result
    IN  IF Includes(SPEC_OPTIONS, storedSetting) THEN storedSetting ELSE fallbackVersion

(***************************************************************************)
(* Payloads handed to chrome.tabs.executeScript.                           *)
(***************************************************************************)
Payload(kind, a, b, cb) == [kind |-> kind, a |-> a, b |-> b, cb |-> cb]

mainJsFile == Payload("main", "", "", "afterMain")
bootstrapCode == Payload("bootstrap", "", "", "none")
setLangCode(lang) == Payload("setLocale", lang, "", "afterSetLang")
logLangCode == Payload("logLocale", "", "", "none")
setApiEndpointCode(endpoint) == Payload("setEndpoint", endpoint, "", "afterSetEndpoint")
logApiEndpointCode == Payload("logEndpoint", "", "", "none")
getRunAndShowCode(version) == Payload("runShow", getSelectedLang, version, "afterShow")
\* faulty variant of the send payload: dispatched with the closing callback
runAndSendCode_withClose ==
    Payload("runSend", getSelectedLang, getSelectedAPIEndpoint, "afterShow")
runAndSendCode == Payload("runSend", getSelectedLang, getSelectedAPIEndpoint, "none")
runAndDownloadCode == Payload("runDownload", getSelectedLang, "", "none")

\* chrome.tabs.executeScript: the payload joins the tab's queue
executeScript(q, payload) == Append(q, payload)

\* run-and-show clicks whose preference read is pending: each will dispatch
\* its payload when the read is served
PendingShows ==
    Cardinality({i \in 1..Len(storageQ) :
                    storageQ[i].op = "get" /\ storageQ[i].site = "click"})

\* the payloads and callbacks of the startup sequence
StartupKinds == {"main", "bootstrap"}
UserPayloads == SelectSeq(execQ, LAMBDA p : p.kind \notin StartupKinds)
UserCallbacks == SelectSeq(cbQ, LAMBDA cb : cb # "afterMain")

\* the user may start one more command
CanDispatch == Len(UserPayloads) + Len(UserCallbacks) + PendingShows < MaxInFlight

(***************************************************************************)
(* Initial state: the page is loaded, the popup has not been opened.       *)
(***************************************************************************)
EmptySelect == [options |-> <<>>, value |-> ""]
NoMessage == [sender |-> "", key |-> "", supported |-> <<>>, user |-> ""]
\* The latest event among a call site's getSpecVersion calls: a call was
\* issued (queued), a promise resolved (by says which res() call did it, value
\* is what it resolved to), or a callback threw.  Each call's fallbackVersion
\* travels with its storage request, so any number of calls can be open.
IdleRead == [st |-> "idle", by |-> "", value |-> ""]
Sites == {"init", "click"}
NoInstance == [defined |-> FALSE, preferLocale |-> "", apiEndpoint |-> ""]

Init ==
    /\ popupOpen = FALSE
    /\ opens = 0
    /\ LANG_SELECT = EmptySelect
    /\ API_SELECT = EmptySelect
    /\ SPEC_SELECT = ""
    /\ toggle = "initial"
    /\ loader = "initial"
    /\ consoleLog = NoMessage
    /\ fetchPending = 0
    /\ reads = [s \in Sites |-> IdleRead]
    /\ storageQ = <<>>
    /\ stored \in StoredValues
    /\ execQ = <<>>
    /\ cbQ = <<>>
    /\ closeTimer = FALSE
    /\ remote = [mainLoaded |-> FALSE, instance |-> NoInstance, constructed |-> 0,
                 bootstrapRuns |-> 0, reportsPending |-> 0]

(***************************************************************************)
(* The popup script: top-level run, listeners and callbacks.               *)
\* faulty variant of initScripts: the bootstrap is dispatched without waiting
\* for main.js to complete
initScripts_noWait(q) == executeScript(executeScript(q, mainJsFile), bootstrapCode)

\* the dispatch at the end of popup.js: main.js alone; the bootstrap follows
\* from its completion callback (AfterMainJs)
initScripts(q) == executeScript(q, mainJsFile)

(***************************************************************************)
\* The popup is opened: popup.js runs top to bottom.  It dispatches main.js
\* and calls getSpecVersion, whose result will be written into SPEC_SELECT.
\* htmlSpec is the option popup.html shows first; getThrows says whether
\* chrome.storage.sync.get throws synchronously.
OpenPopup(htmlSpec, getThrows) ==
    /\ ~popupOpen
    /\ opens < MaxOpens
    /\ CanDispatch
    /\ getThrows \/ Len(storageQ) < MaxStorageQ
    /\ popupOpen' = TRUE
    /\ opens' = opens + 1
    /\ LANG_SELECT' = EmptySelect
    /\ API_SELECT' = EmptySelect
    /\ toggle' = "initial"
    /\ loader' = "initial"
    /\ consoleLog' = NoMessage
    /\ fetchPending' = 0
    /\ closeTimer' = FALSE
    /\ cbQ' = <<>>
    /\ execQ' = initScripts(execQ)
    /\ IF getThrows
       THEN /\ reads' = [reads EXCEPT !["init"] =
                            [st |-> "resolved", by |-> "catch", value |-> htmlSpec]]
            /\ storageQ' = storageQ
       ELSE /\ reads' = [reads EXCEPT !["init"] =
                            [st |-> "queued", by |-> "", value |-> ""]]
            /\ storageQ' = Append(storageQ, [op |-> "get", site |-> "init", version |-> "", fallback |-> htmlSpec])
    /\ SPEC_SELECT' = htmlSpec
    /\ UNCHANGED <<stored, remote>>

\* chrome.runtime.onMessage listener: what it does to the popup
handleMessage(sender, key, supported, user) ==
    /\ consoleLog' = [sender |-> sender, key |-> key, supported |-> supported, user |-> user]
    /\ IF acceptsMessage(sender, key)
       THEN /\ fetchPending < MaxFetch
            /\ LANG_SELECT' = loadLangs(mergeLocales(supported, user))
            /\ toggle' = toggleEnabled(Len(mergeLocales(supported, user)) > 0)
            /\ fetchPending' = fetchPending + 1
       ELSE UNCHANGED <<LANG_SELECT, toggle, fetchPending>>

\* a runtime message reaches the open popup
onMessage(sender, key, supported, user) ==
    /\ popupOpen
    /\ handleMessage(sender, key, supported, user)
    /\ UNCHANGED <<popupOpen, opens, API_SELECT, SPEC_SELECT, loader, reads, storageQ,
                   stored, execQ, cbQ, closeTimer, remote>>

\* fetch(endpoints.json) resolves with json and the listener's then-chain
\* calls loadApiEndpoints(json)
FetchResolve(json) ==
    /\ popupOpen
    /\ fetchPending > 0
    /\ fetchPending' = fetchPending - 1
    /\ API_SELECT' = loadApiEndpoints(json)
    /\ toggle' = loadApiEndpointsToggle(json)
    /\ UNCHANGED <<popupOpen, opens, LANG_SELECT, SPEC_SELECT, loader, consoleLog, reads,
                   storageQ, stored, execQ, cbQ, closeTimer, remote>>

\* liToJsonButton click: await getSpecVersion(), then dispatch run-and-show.
\* When chrome.storage.sync.get throws, the promise is already resolved with
\* the fallback and the handler goes on to dispatch at once.
ClickShow(getThrows) ==
    /\ popupOpen
    /\ CanDispatch
    /\ IF getThrows
       THEN /\ reads' = [reads EXCEPT !["click"] =
                            [st |-> "resolved", by |-> "catch", value |-> SPEC_SELECT]]
            /\ execQ' = executeScript(execQ, getRunAndShowCode(SPEC_SELECT))
            /\ storageQ' = storageQ
       ELSE /\ Len(storageQ) < MaxStorageQ
            /\ reads' = [reads EXCEPT !["click"] =
                            [st |-> "queued", by |-> "", value |-> ""]]
            /\ storageQ' = Append(storageQ, [op |-> "get", site |-> "click", version |-> "", fallback |-> SPEC_SELECT])
            /\ execQ' = execQ
    /\ UNCHANGED <<popupVars, stored, cbQ, remote>>

\* liToApiButton click
ClickSend ==
    /\ popupOpen
    /\ CanDispatch
    /\ loader' = showLoader(TRUE)
    /\ execQ' = executeScript(execQ, runAndSendCode)
    /\ UNCHANGED <<popupOpen, opens, LANG_SELECT, API_SELECT, SPEC_SELECT, toggle,
                   consoleLog, fetchPending, reads, storageQ, stored, cbQ, closeTimer,
                   remote>>

\* liToJsonDownloadButton click
ClickDownload ==
    /\ popupOpen
    /\ CanDispatch
    /\ execQ' = executeScript(execQ, runAndDownloadCode)
    /\ UNCHANGED <<popupVars, reads, storageQ, stored, cbQ, remote>>

\* setLang / setApiEndpoint / setSpecVersion
setLang(lang) == executeScript(execQ, setLangCode(lang))
setApiEndpoint(endpoint) == executeScript(execQ, setApiEndpointCode(endpoint))
setSpecVersion(version) ==
    Append(storageQ, [op |-> "set", site |-> "", version |-> version, fallback |-> ""])

\* the user picks another locale: LANG_SELECT change listener
LangChange(i) ==
    /\ popupOpen
    /\ CanDispatch
    /\ i \in 1..Len(LANG_SELECT.options)
    /\ LANG_SELECT.options[i].value # LANG_SELECT.value
    /\ LANG_SELECT' = [LANG_SELECT EXCEPT !.value = LANG_SELECT.options[i].value]
    /\ execQ' = setLang(LANG_SELECT.options[i].value)
    /\ UNCHANGED <<popupOpen, opens, API_SELECT, SPEC_SELECT, toggle, loader, consoleLog,
                   fetchPending, reads, storageQ, stored, cbQ, closeTimer, remote>>

\* the user picks another endpoint: API_SELECT change listener
ApiChange(i) ==
    /\ popupOpen
    /\ CanDispatch
    /\ i \in 1..Len(API_SELECT.options)
    /\ API_SELECT.options[i].value # API_SELECT.value
    /\ API_SELECT' = [API_SELECT EXCEPT !.value = API_SELECT.options[i].value]
    /\ execQ' = setApiEndpoint(API_SELECT.options[i].value)
    /\ UNCHANGED <<popupOpen, opens, LANG_SELECT, SPEC_SELECT, toggle, loader, consoleLog,
                   fetchPending, reads, storageQ, stored, cbQ, closeTimer, remote>>

\* the user picks another schema version: SPEC_SELECT change listener
SpecChange(version) ==
    /\ popupOpen
    /\ Len(storageQ) < MaxStorageQ
    /\ version \in SpecSelectOptions
    /\ version # SPEC_SELECT
    /\ SPEC_SELECT' = version
    /\ storageQ' = setSpecVersion(version)
    /\ UNCHANGED <<popupOpen, opens, LANG_SELECT, API_SELECT, toggle, loader, consoleLog,
                   fetchPending, reads, stored, execQ, cbQ, closeTimer, remote>>

\* setSpecVersion called with any argument: the function checks nothing and
\* touches no selector (its one caller passes SPEC_SELECT.value)
setSpecVersionCall(version) ==
    /\ popupOpen
    /\ Len(storageQ) < MaxStorageQ
    /\ storageQ' = setSpecVersion(version)
    /\ UNCHANGED <<popupVars, reads, stored, execQ, cbQ, remote>>

(***************************************************************************)
(* chrome.storage.sync: requests are served in the order they were sent.   *)
(***************************************************************************)
\* a set request is served; ok = FALSE is a failed write
StorageWrite(ok) ==
    /\ storageQ # <<>>
    /\ Head(storageQ).op = "set"
    /\ storageQ' = Tail(storageQ)
    /\ stored' = IF ok THEN Head(storageQ).version ELSE stored
    /\ UNCHANGED <<popupVars, reads, execQ, cbQ, remote>>

\* A get request is served and getSpecVersion's callback runs.  ok = FALSE is
\* a failed read: chrome calls the callback without a result, and reading
\* result[STORAGE_KEYS.schemaVersion] throws inside the callback, outside the
\* try block, so the promise is never settled.  Otherwise the promise
\* resolves and the awaiting code runs: the init call writes SPEC_SELECT,
\* the click handler dispatches run-and-show.
getSpecVersionCallback(site, ok) ==
    /\ storageQ # <<>>
    /\ Head(storageQ).op = "get"
    /\ Head(storageQ).site = site
    /\ storageQ' = Tail(storageQ)
    /\ IF ~ok
       THEN /\ reads' = [reads EXCEPT ![site] = [st |-> "threw", by |-> "", value |-> ""]]
            /\ UNCHANGED <<SPEC_SELECT, execQ>>
       ELSE LET spec == resolveSpecVersion(stored, Head(storageQ).fallback)
            IN  /\ reads' = [reads EXCEPT ![site] =
                                    [st |-> "resolved", by |-> "callback", value |-> spec]]
                /\ IF site = "init"
                   THEN /\ SPEC_SELECT' = spec
                        /\ execQ' = execQ
                   ELSE /\ execQ' = executeScript(execQ, getRunAndShowCode(spec))
                        /\ SPEC_SELECT' = SPEC_SELECT
    /\ UNCHANGED <<popupOpen, opens, LANG_SELECT, API_SELECT, toggle, loader, consoleLog,
                   fetchPending, stored, cbQ, closeTimer, remote>>

(***************************************************************************)
(* The tab: payloads run in the content-script scope in dispatch order.    *)
(***************************************************************************)
\* new LinkedinToResumeJson(isDebug): the fields hold the constructor's
\* defaults (the debug flag is not part of the model)
NewInstance ==
    [defined |-> TRUE, preferLocale |-> "<default>", apiEndpoint |-> "<default>"]

\* faulty variant of createMainInstanceCode: no reuse of the bound instance
createMainInstanceCode_alwaysNew(r) ==
    IF r.mainLoaded
    THEN [r EXCEPT !.bootstrapRuns = r.bootstrapRuns + 1,
                   !.instance = NewInstance,
                   !.constructed = r.constructed + 1]
    ELSE [r EXCEPT !.bootstrapRuns = r.bootstrapRuns + 1]

\* createMainInstanceCode: reuse liToJrInstance when it is bound, construct
\* otherwise.  Without main.js the class is unbound and the script throws.
createMainInstanceCode(r) ==
    IF r.instance.defined
    THEN [r EXCEPT !.bootstrapRuns = r.bootstrapRuns + 1]
    ELSE IF r.mainLoaded
         THEN [r EXCEPT !.bootstrapRuns = r.bootstrapRuns + 1,
                        !.instance = NewInstance,
                        !.constructed = r.constructed + 1]
         ELSE [r EXCEPT !.bootstrapRuns = r.bootstrapRuns + 1]

\* getLangStringsCode: an async function that will send the locales message;
\* a ReferenceError when liToJrInstance is unbound
getLangStringsCode(r) ==
    IF r.instance.defined
    THEN [r EXCEPT !.reportsPending = r.reportsPending + 1]
    ELSE r

\* a statement on liToJrInstance: a ReferenceError, and no effect, when it
\* is unbound
onInstance(r, updated) == IF r.instance.defined THEN updated ELSE r

\* what executing payload p does to the content-script scope r
runPayload(r, p) ==
    CASE p.kind = "main" -> [r EXCEPT !.mainLoaded = TRUE]
      [] p.kind = "bootstrap" ->
            LET r1 == createMainInstanceCode(r)
            IN  IF r1.instance.defined THEN getLangStringsCode(r1) ELSE r1
      [] p.kind = "setLocale" -> onInstance(r, [r EXCEPT !.instance.preferLocale = p.a])
      [] p.kind = "setEndpoint" -> onInstance(r, [r EXCEPT !.instance.apiEndpoint = p.a])
      [] p.kind \in {"runShow", "runSend", "runDownload"} ->
            onInstance(r, [r EXCEPT !.instance.preferLocale = p.a])
      [] OTHER -> r

\* the tab executes the oldest payload; its completion callback, if any,
\* becomes due in the popup that dispatched it
RunInTab ==
    /\ execQ # <<>>
    /\ remote' = runPayload(remote, Head(execQ))
    /\ execQ' = Tail(execQ)
    /\ cbQ' = IF Head(execQ).cb # "none" /\ popupOpen THEN Append(cbQ, Head(execQ).cb) ELSE cbQ
    /\ UNCHANGED <<popupVars, reads, storageQ, stored>>

\* a due executeScript callback runs in the popup
Callback(cb, next) ==
    /\ popupOpen
    /\ cbQ # <<>>
    /\ Head(cbQ) = cb
    /\ cbQ' = Tail(cbQ)
    /\ execQ' = executeScript(execQ, next)
    /\ UNCHANGED <<popupVars, reads, storageQ, stored, remote>>

\* init: main.js is in, dispatch the bootstrap and the locale report
AfterMainJs == Callback("afterMain", bootstrapCode)
\* setLang's callback: log the instance and its preferLocale
AfterSetLang == Callback("afterSetLang", logLangCode)
\* setApiEndpoint's callback: log the instance and its apiEndpoint
AfterSetApiEndpoint == Callback("afterSetEndpoint", logApiEndpointCode)

\* run-and-show's callback: arm the close timer
AfterRunAndShow ==
    /\ popupOpen
    /\ cbQ # <<>>
    /\ Head(cbQ) = "afterShow"
    /\ cbQ' = Tail(cbQ)
    /\ closeTimer' = TRUE
    /\ UNCHANGED <<popupOpen, opens, LANG_SELECT, API_SELECT, SPEC_SELECT, toggle, loader,
                   consoleLog, fetchPending, reads, storageQ, stored, execQ, remote>>

\* a payload whose popup is gone: its callback will never run
Orphan(p) == [p EXCEPT !.cb = "none"]

\* the timer fires: window.close().  The popup document goes away with its
\* pending promises and callbacks; what was already sent to the tab or to
\* storage still takes effect.
CloseTimerFire ==
    /\ popupOpen
    /\ closeTimer
    /\ popupOpen' = FALSE
    /\ closeTimer' = FALSE
    /\ LANG_SELECT' = EmptySelect
    /\ API_SELECT' = EmptySelect
    /\ SPEC_SELECT' = ""
    /\ toggle' = "initial"
    /\ loader' = "initial"
    /\ consoleLog' = NoMessage
    /\ fetchPending' = 0
    /\ reads' = [s \in Sites |-> IdleRead]
    /\ cbQ' = <<>>
    /\ storageQ' = SelectSeq(storageQ, LAMBDA q : q.op = "set")
    /\ execQ' = [i \in 1..Len(execQ) |-> Orphan(execQ[i])]
    /\ UNCHANGED <<opens, stored, remote>>

\* the async function of getLangStringsCode finishes: the page sends the
\* locales message, which the popup's listener handles if a popup is open
LocaleReport(supported, user) ==
    /\ remote.reportsPending > 0
    /\ remote' = [remote EXCEPT !.reportsPending = remote.reportsPending - 1]
    /\ IF popupOpen
       THEN handleMessage(extensionId, "locales", supported, user)
       ELSE UNCHANGED <<LANG_SELECT, toggle, fetchPending, consoleLog>>
    /\ UNCHANGED <<popupOpen, opens, API_SELECT, SPEC_SELECT, loader, reads, storageQ,
                   stored, execQ, cbQ, closeTimer>>

(***************************************************************************)
(* The whole system: popup, storage and tab, with small inputs.            *)
(***************************************************************************)
Next ==
    \/ \E htmlSpec \in SpecSelectOptions, getThrows \in BOOLEAN : OpenPopup(htmlSpec, getThrows)
    \/ \E m \in SysReports : LocaleReport(m.supported, m.user)
    \/ \E json \in SysRawLists : FetchResolve(json)
    \/ \E getThrows \in BOOLEAN : ClickShow(getThrows)
    \/ ClickSend
    \/ ClickDownload
    \/ \E i \in 1..(MaxSupported + 1) : LangChange(i)
    \/ \E i \in 1..(MaxRaw + 1) : ApiChange(i)
    \/ \E version \in SpecSelectOptions : SpecChange(version)
    \/ \E ok \in BOOLEAN : StorageWrite(ok)
    \/ \E site \in Sites, ok \in BOOLEAN : getSpecVersionCallback(site, ok)
    \/ RunInTab
    \/ AfterMainJs
    \/ AfterSetLang
    \/ AfterSetApiEndpoint
    \/ AfterRunAndShow
    \/ CloseTimerFire

Spec == Init /\ [][Next]_vars

(***************************************************************************)
(* Component runs: the same actions, each run exercising one part of the   *)
(* popup on the full range of that part's inputs while the rest idles.     *)
(***************************************************************************)
\* the message listener and the locale merge, on every locale report
InitLocales == Init /\ stored = Undefined
NextLocales ==
    \/ OpenPopup("stable", FALSE)
    \/ \E supported \in SupportedLists, user \in Locales :
          onMessage(extensionId, "locales", supported, user)
    \/ \E sender \in Senders, key \in Keys, m \in SysReports :
          /\ <<sender, key>> # <<extensionId, "locales">>
          /\ onMessage(sender, key, m.supported, m.user)
SpecLocales == InitLocales /\ [][NextLocales]_vars

\* the message listener and the endpoint catalog, on every raw endpoint list
NextBus ==
    \/ OpenPopup("stable", FALSE)
    \/ \E sender \in Senders, key \in Keys, m \in SysReports :
          onMessage(sender, key, m.supported, m.user)
    \/ \E json \in RawLists : FetchResolve(json)
SpecBus == InitLocales /\ [][NextBus]_vars

\* the preference store: every stored value, failing and succeeding reads
NextPrefs ==
    \/ \E getThrows \in BOOLEAN : OpenPopup("stable", getThrows)
    \/ \E version \in SpecSelectOptions : SpecChange(version)
    \/ \E getThrows \in BOOLEAN : ClickShow(getThrows)
    \/ \E ok \in BOOLEAN : StorageWrite(ok)
    \/ \E site \in Sites, ok \in BOOLEAN : getSpecVersionCallback(site, ok)
    \/ RunInTab
    \/ AfterMainJs
    \/ AfterRunAndShow
SpecPrefs == Init /\ [][NextPrefs]_vars

\* the tab and the commands sent to it, over repeated openings of the popup
NextRemote ==
    \/ OpenPopup("stable", FALSE)
    \/ \E m \in TabReports : LocaleReport(m.supported, m.user)
    \/ \E json \in TabRawLists : FetchResolve(json)
    \/ ClickShow(FALSE)
    \/ \E site \in Sites : getSpecVersionCallback(site, TRUE)
    \/ ClickSend
    \/ ClickDownload
    \/ \E i \in 1..(MaxSupported + 1) : LangChange(i)
    \/ \E i \in 1..(MaxRaw + 1) : ApiChange(i)
    \/ RunInTab
    \/ AfterMainJs
    \/ AfterSetLang
    \/ AfterSetApiEndpoint
    \/ AfterRunAndShow
    \/ CloseTimerFire
SpecRemote == InitLocales /\ [][NextRemote]_vars

\* setSpecVersion and getSpecVersion against a store that starts empty, with
\* writes of valid and invalid values
NextStore ==
    \/ OpenPopup("stable", FALSE)
    \/ \E version \in SpecSelectOptions : SpecChange(version)
    \/ \E version \in StoredValues \ {Undefined} : setSpecVersionCall(version)
    \/ ClickShow(FALSE)
    \/ StorageWrite(TRUE)
    \/ \E site \in Sites : getSpecVersionCallback(site, TRUE)
    \/ RunInTab
    \/ AfterMainJs
    \/ AfterRunAndShow
SpecStore == InitLocales /\ [][NextStore]_vars

\* the startup read of the preference against the user's changes of the
\* version selector, every storage request succeeding
NextRace ==
    \/ \E htmlSpec \in SpecSelectOptions : OpenPopup(htmlSpec, FALSE)
    \/ \E version \in SpecSelectOptions : SpecChange(version)
    \/ StorageWrite(TRUE)
    \/ getSpecVersionCallback("init", TRUE)
SpecRace == Init /\ [][NextRace]_vars

(***************************************************************************)
(* Properties.                                                             *)
(***************************************************************************)
OptionValues(select) == [i \in 1..Len(select.options) |-> select.options[i].value]

RECURSIVE RemoveFirst(_, _)
RemoveFirst(s, x) ==
    IF s = <<>> THEN <<>>
    ELSE IF Head(s) = x THEN Tail(s)
    ELSE <<Head(s)>> \o RemoveFirst(Tail(s), x)

Count(s, x) == Cardinality({i \in 1..Len(s) : s[i] = x})
Range(s) == {s[i] : i \in 1..Len(s)}
NoRepeats(s) == \A i, j \in 1..Len(s) : s[i] = s[j] => i = j

\* the last message the listener logged was a locales report it handled
LastAccepted == consoleLog.sender = extensionId /\ consoleLog.key = "locales"

\* C1: after a locales report is handled, the locale selector lists user
\* followed by supported without the first occurrence of user: user is first,
\* the other entries keep their order, and an empty supported gives [user].
C1_MergedList ==
    LastAccepted =>
        /\ OptionValues(LANG_SELECT) =
               <<consoleLog.user>> \o RemoveFirst(consoleLog.supported, consoleLog.user)
        /\ OptionValues(LANG_SELECT)[1] = consoleLog.user
        /\ consoleLog.supported = <<>> => OptionValues(LANG_SELECT) = <<consoleLog.user>>

C1_Witness ==
    /\ LastAccepted
    /\ consoleLog.supported = <<"en", "fr", "de">>
    /\ consoleLog.user = "fr"
    /\ OptionValues(LANG_SELECT) = <<"fr", "en", "de">>

\* C2 as stated: the merged list holds every element of supported and user
\* exactly once, whatever supported repeats.
C2_Deduplicated ==
    LastAccepted =>
        \A x \in Range(consoleLog.supported) \cup {consoleLog.user} :
            Count(OptionValues(LANG_SELECT), x) = 1

\* C2 amended: with no repeated code in supported, the merged list holds
\* every element of supported and user exactly once; repeats in supported are
\* kept, so every code occurs as often as in supported, and user once when
\* supported lacks it.
C2_Multiplicity ==
    LastAccepted =>
        /\ NoRepeats(consoleLog.supported) =>
               /\ Range(OptionValues(LANG_SELECT)) =
                      Range(consoleLog.supported) \cup {consoleLog.user}
               /\ NoRepeats(OptionValues(LANG_SELECT))
        /\ \A x \in Locales :
               Count(OptionValues(LANG_SELECT), x) =
                   IF x = consoleLog.user /\ ~Includes(consoleLog.supported, x)
                   THEN 1
                   ELSE Count(consoleLog.supported, x)

C2_Witness ==
    /\ LastAccepted
    /\ consoleLog.supported = <<"fr", "en", "fr">>
    /\ consoleLog.user = "fr"
    /\ OptionValues(LANG_SELECT) = <<"fr", "en", "fr">>

\* the options loadApiEndpoints is to show for a raw list
TruthyDescriptors(json) == SelectSeq(json, Truthy)
OptionOf(d) == [value |-> d.url, text |-> d.name]

\* C3: a load of a raw endpoint list leaves in the endpoint selector exactly
\* the truthy descriptors of that list, in order, and nothing from earlier
\* loads.
C3_EndpointOptions ==
    [][\A json \in RawLists :
          FetchResolve(json) =>
              /\ Len(API_SELECT'.options) = Len(TruthyDescriptors(json))
              /\ \A i \in 1..Len(TruthyDescriptors(json)) :
                     API_SELECT'.options[i] = OptionOf(TruthyDescriptors(json)[i])]_vars

\* two descriptors are shown, in order, after earlier loads and with no
\* fetch outstanding
C3_Witness ==
    /\ popupOpen
    /\ fetchPending = 0
    /\ OptionValues(API_SELECT) = <<"u1", "u2">>
    /\ toggle = "enabled"

\* C4: after a load the controls are enabled exactly when a descriptor
\* survived the filtering; a raw list of placeholders only leaves them
\* disabled.
C4_DisabledWhenEmpty ==
    [][\A json \in RawLists :
          FetchResolve(json) =>
              (toggle' = "enabled" <=> Len(API_SELECT'.options) > 0)]_vars

\* C8: a message from another sender, or with a key other than locales,
\* changes neither selector, nor the enabled state, and starts no fetch.
C8_Dropped ==
    [][\A sender \in Senders, key \in Keys, m \in SysReports :
          (/\ ~(sender = extensionId /\ key = "locales")
           /\ onMessage(sender, key, m.supported, m.user))
          => UNCHANGED <<LANG_SELECT, API_SELECT, toggle, fetchPending>>]_vars

\* a dropped message was logged while both selectors showed options
C8_Witness ==
    /\ consoleLog.sender = OtherSender
    /\ consoleLog.key = "locales"
    /\ consoleLog.user = "en"
    /\ OptionValues(LANG_SELECT) = <<"fr", "en">>
    /\ API_SELECT.options # <<>>
    /\ fetchPending = 1

\* C5: whatever chrome.storage.sync holds, a getSpecVersion promise that
\* resolved did so with legacy, stable or beta.
C5_ResolvesInEnumeration ==
    \A site \in Sites :
        reads[site].st = "resolved" => reads[site].value \in {"legacy", "stable", "beta"}

\* a call resolved while the store held an invalid string
C5_Witness ==
    /\ stored = "not-a-version"
    /\ reads["init"].st = "resolved"
    /\ reads["init"].by = "callback"
    /\ reads["click"].st = "resolved"
    /\ reads["click"].by = "callback"

\* C6: the storage callback resolves the promise to the persisted value when
\* that is legacy, stable or beta, and otherwise to the value the selector
\* had when getSpecVersion was called, whatever the selector shows by then;
\* a call whose storage read throws resolves to the selector's value at once.
C6_PersistedOrCallTimeFallback ==
    [][\A site \in Sites :
          /\ (Len(storageQ') > Len(storageQ) /\ storageQ'[Len(storageQ')].op = "get"
                  /\ storageQ'[Len(storageQ')].site = site)
                 => /\ reads'[site].st = "queued"
                    /\ storageQ'[Len(storageQ')].fallback = SPEC_SELECT'
          /\ getSpecVersionCallback(site, TRUE)
                 => /\ reads'[site].st = "resolved"
                    /\ reads'[site].value =
                           IF stored \in {"legacy", "stable", "beta"}
                           THEN stored
                           ELSE Head(storageQ).fallback
          /\ (reads'[site].st = "resolved" /\ reads'[site].by = "catch"
                  /\ reads'[site] # reads[site])
                 => reads'[site].value = SPEC_SELECT']_vars

\* the click handler's call resolved to the call-time selector value after
\* the selector had moved on, the store holding no valid version
C6_Witness ==
    /\ reads["click"].st = "resolved"
    /\ reads["click"].by = "callback"
    /\ reads["click"].value = "stable"
    /\ SPEC_SELECT = "beta"
    /\ stored = "not-a-version"
    /\ storageQ # <<>>
    /\ Head(storageQ).op = "set"

\* C7: no call to getSpecVersion ends with its callback run and its promise
\* unsettled: a failed storage read still resolves the promise.
C7_AlwaysResolves ==
    \A site \in Sites : reads[site].st \in {"idle", "queued", "resolved"}

\* C9: however often the bootstrap code has run in the page, at most one
\* instance was constructed, exactly one once the bootstrap has run, and a
\* run constructs only when liToJrInstance was unbound.
C9_OneInstance ==
    /\ remote.constructed <= 1
    /\ remote.bootstrapRuns >= 1 => remote.constructed = 1
    /\ remote.instance.defined <=> remote.constructed = 1

\* the bootstrap ran twice in the page
C9_Witness ==
    /\ remote.bootstrapRuns = 2
    /\ remote.constructed = 1
    /\ opens = 2

\* C10: a run of the bootstrap code in a page that has an instance leaves
\* the instance, with its preferLocale and apiEndpoint, as it was.
C10_BootstrapKeepsInstance ==
    [][(remote'.bootstrapRuns # remote.bootstrapRuns /\ remote.instance.defined)
          => remote'.instance = remote.instance]_vars

\* The second popup's bootstrap has run and the instance still holds the
\* locale and endpoint chosen in the first popup (the second popup has no
\* options yet to choose from).
C10_Witness ==
    /\ remote.bootstrapRuns = 2
    /\ opens = 2
    /\ LANG_SELECT.options = <<>>
    /\ API_SELECT.options = <<>>
    /\ remote.instance.preferLocale = "en"
    /\ remote.instance.apiEndpoint = "u2"

\* the arguments a payload passes to the instance method it invokes:
\* parseAndShowOutput(version), parseAndSendToApi(endpoint), parseAndDownload()
callArgs(p) ==
    CASE p.kind = "runShow" -> <<p.b>>
      [] p.kind = "runSend" -> <<p.b>>
      [] OTHER -> <<>>

\* C11: every send-to-endpoint payload awaiting execution sets the locale
\* and invokes the send action with the selected endpoint and with a schema
\* version out of legacy, stable and beta.
C11_SendCarriesVersion ==
    \A i \in 1..Len(execQ) :
        execQ[i].kind = "runSend" =>
            /\ execQ[i].a \in Locales \cup {""}
            /\ Includes(callArgs(execQ[i]), execQ[i].b)
            /\ \E version \in {"legacy", "stable", "beta"} :
                   Includes(callArgs(execQ[i]), version)

\* C12: a fetch of the endpoint descriptors starts only in a step in which
\* the listener handles a locales message from the extension itself, every
\* such message starts exactly one, and the endpoint selector is loaded only
\* by a step that ends one pending fetch.
C12_LoadOnlyOnAccepted ==
    [][/\ fetchPending' > fetchPending =>
              /\ popupOpen
              /\ fetchPending' = fetchPending + 1
              /\ consoleLog'.sender = extensionId
              /\ consoleLog'.key = "locales"
              /\ LANG_SELECT' =
                     loadLangs(mergeLocales(consoleLog'.supported, consoleLog'.user))
       /\ \A m \in SysReports :
              onMessage(extensionId, "locales", m.supported, m.user) =>
                  fetchPending' = fetchPending + 1
       /\ (popupOpen /\ popupOpen' /\ API_SELECT' # API_SELECT) =>
              /\ fetchPending > 0
              /\ fetchPending' = fetchPending - 1]_vars

\* one load has completed and two later locales messages each wait for
\* theirs
C12_Witness ==
    /\ LastAccepted
    /\ fetchPending = 2
    /\ API_SELECT.options # <<>>

\* C13: the bootstrap payload is dispatched only once main.js has completed
\* in the page, so no main.js payload is ahead of a bootstrap payload; a run
\* of the bootstrap leaves an instance bound before the locale report starts,
\* so a locales message is pending only in a page that has an instance.
C13_BootstrapAfterMain ==
    /\ \A j \in 1..Len(execQ) :
           execQ[j].kind = "bootstrap" =>
               /\ remote.mainLoaded
               /\ \A i \in 1..(j - 1) : execQ[i].kind # "main"
    /\ remote.bootstrapRuns >= 1 => (remote.mainLoaded /\ remote.instance.defined)
    /\ remote.reportsPending > 0 => (remote.instance.defined /\ remote.bootstrapRuns >= 1)

\* the first popup's bootstrap has run and its locale report is on its way
C13_Witness ==
    /\ opens = 1
    /\ remote.mainLoaded
    /\ remote.bootstrapRuns = 1
    /\ remote.instance.defined
    /\ remote.reportsPending = 1

\* C14: handling a locales message does not enable the controls: the step
\* that accepts the message starts the endpoint load, and in the state it
\* leads to, where that load is pending, the controls are not enabled.
C14_EnabledOnlyAfterLoad ==
    [][\A m \in SysReports :
          onMessage(extensionId, "locales", m.supported, m.user) =>
              (fetchPending' > 0 => toggle' # "enabled")]_vars

\* C15: the popup goes away only by its armed close timer; the timer is
\* armed only by the completion callback of a run-and-show dispatch; that
\* callback becomes due only when the tab has executed a run-and-show
\* payload; and such a payload is dispatched only in the step that resolves
\* the click handler's preference read, with the version read.
C15_ClosesOnlyAfterShow ==
    [][/\ (popupOpen /\ ~popupOpen') => closeTimer
       /\ (~closeTimer /\ closeTimer') =>
              /\ popupOpen
              /\ cbQ # <<>>
              /\ Head(cbQ) = "afterShow"
              /\ cbQ' = Tail(cbQ)
       /\ (Len(cbQ') > Len(cbQ) /\ cbQ'[Len(cbQ')] = "afterShow") =>
              /\ execQ # <<>>
              /\ Head(execQ).kind = "runShow"
              /\ execQ' = Tail(execQ)
       /\ (Len(execQ') > Len(execQ) /\ execQ'[Len(execQ')].kind = "runShow") =>
              /\ reads'["click"].st = "resolved"
              /\ reads'["click"].by = "callback" =>
                     /\ storageQ # <<>>
                     /\ Head(storageQ).op = "get"
                     /\ Head(storageQ).site = "click"
                     /\ storageQ' = Tail(storageQ)
              /\ callArgs(execQ'[Len(execQ')]) = <<reads'["click"].value>>]_vars

\* the popup has closed itself after its run-and-show command ran in a page
\* that holds an instance
C15_Witness ==
    /\ ~popupOpen
    /\ opens = 1
    /\ execQ = <<>>
    /\ remote.instance.defined
    /\ remote.instance.preferLocale = "fr"

\* C16: while the last message logged is an accepted locales message, the
\* locale selector holds one option per entry of that message's merged list
\* and nothing of earlier messages, each option's value and text being the
\* locale code, and the selected locale is that message's user locale.
C16_ReplacedAndPreselected ==
    LastAccepted =>
        LET merged == <<consoleLog.user>> \o
                          RemoveFirst(consoleLog.supported, consoleLog.user)
        IN  /\ Len(LANG_SELECT.options) = Len(merged)
            /\ \A i \in 1..Len(merged) :
                   LANG_SELECT.options[i] = [value |-> merged[i], text |-> merged[i]]
            /\ LANG_SELECT.value = consoleLog.user

\* the second locales message of a popup left its single locale alone in the
\* selector
C16_Witness ==
    /\ LastAccepted
    /\ fetchPending = 2
    /\ consoleLog.supported = <<>>
    /\ consoleLog.user = "de"
    /\ LANG_SELECT = [options |-> <<[value |-> "de", text |-> "de"]>>, value |-> "de"]

\* C17: setSpecVersion queues a write of its argument whatever the argument
\* is; a write that takes effect stores the value as given; and a read served
\* after it resolves to the stored value when that is legacy, stable or beta,
\* whatever the selector shows, and to the call-time selector value
\* otherwise.
C17_SetGetRoundTrip ==
    [][/\ \A version \in StoredValues \ {Undefined} :
              setSpecVersionCall(version) =>
                  /\ Len(storageQ') = Len(storageQ) + 1
                  /\ storageQ'[Len(storageQ')].op = "set"
                  /\ storageQ'[Len(storageQ')].version = version
       /\ StorageWrite(TRUE) => stored' = Head(storageQ).version
       /\ \A site \in Sites :
              (getSpecVersionCallback(site, TRUE) /\ stored # Undefined) =>
                  /\ reads'[site].st = "resolved"
                  /\ stored \in {"legacy", "stable", "beta"} => reads'[site].value = stored
                  /\ stored \notin {"legacy", "stable", "beta"} =>
                         /\ reads'[site].value = Head(storageQ).fallback
                         /\ reads'[site].value \in {"legacy", "stable", "beta"}]_vars

\* a written beta was read back by the click handler while the selector
\* showed stable
C17_Witness ==
    /\ stored = "beta"
    /\ storageQ = <<>>
    /\ SPEC_SELECT = "stable"
    /\ reads["init"].st = "resolved"
    /\ reads["click"].st = "resolved"
    /\ reads["click"].by = "callback"
    /\ reads["click"].value = "beta"

\* C18: once no storage request is pending in an open popup, the version
\* selector shows the persisted version whenever that is legacy, stable or
\* beta: the startup read never replaces a newer choice of the user.
C18_SelectorMatchesStore ==
    (popupOpen /\ storageQ = <<>> /\ stored \in {"legacy", "stable", "beta"})
        => SPEC_SELECT = stored

\* the payloads whose code names liToJrInstance without binding it
UsesInstance(p) ==
    p.kind \in {"setLocale", "logLocale", "setEndpoint", "logEndpoint",
                "runShow", "runSend", "runDownload"}

\* C19: whenever the tab executes a payload that uses liToJrInstance, the
\* page holds an instance.
C19_InstanceBeforeCommands ==
    [][(RunInTab /\ UsesInstance(Head(execQ))) => remote.instance.defined]_vars

====
